---- MODULE Spec2Model ----
(***************************************************************************)
(* Velocity arbitration (nodes/node_control.py), the stopping profile      *)
(* generator and the differential-drive odometry                           *)
(* (examples/example_localization.py) as state machines.                   *)
(*                                                                         *)
(* Time is counted in units of 1/600 s, so that the loop period (1/300 s), *)
(* the profile resolution (0.01 s) and the 2.0 s and 5.0 s bounds are all  *)
(* whole numbers.  Velocities are counted in units of 1/7200 m/s (rad/s),  *)
(* so that v0 / decel_time is a whole number for every v0 and decel_time   *)
(* the model draws.  All time.time() reads of one control tick return the  *)
(* same value, now.                                                        *)
(***************************************************************************)
EXTENDS Integers, Sequences, FiniteSets, TLC

\* ------------------------------------------------------------ optionals
\* Python's None and a present value, both sequences so that they compare.
None == <<>>
Some(v) == <<v>>
Val(o) == o[1]

Abs(n) == IF n < 0 THEN 0 - n ELSE n

\* ------------------------------------------------------------ units
loop_rate_hz == 300
Second == 2 * loop_rate_hz
Period == Second \div loop_rate_hz
resolution == Second \div 100
PlanMaxAge == 5 * Second
CommandMaxAge == 2 * Second
DecelTime == 2 * Second
One == 6 * DecelTime

\* ------------------------------------------------------------ bounds
MaxTicks == 4
MaxMsgs == 4
MaxGoalIdx == 1
MaxUpdates == 3
MaxIters == 2
MaxReads == 1
MaxWraps == 6
MaxOrderTicks == 2
MaxRunIters == 3
MaxPaceIters == 4
MaxAgedTicks == 2
MaxTwinTicks == 2
MaxShutdownTicks == 2

\* ------------------------------------------------------------ inputs
\* Wall-clock time that passes from one tick to the next.
TickGaps == {Second \div 2, 5 * Second}

ListA == <<<<0, 0, 0>>, <<1, 0, 0>>>>
ListB == <<<<0, 0, 0>>, <<0, 1, 0>>>>

\* Messages the bus can hold for the tick that reads at time t; each carries
\* the timestamp its publisher gave it.
PlanMsgs(t) ==
    { [path_pose_list |-> ListA, timestamp |-> t - Second \div 2],
      [path_pose_list |-> ListB, timestamp |-> t] }

TargetMsgs(t) ==
    { [linear_velocity_mps |-> One, angular_velocity_radps |-> 0,
       timestamp |-> t - Second],
      [linear_velocity_mps |-> 0 - (One \div 3),
       angular_velocity_radps |-> 2 * (One \div 3), timestamp |-> t] }

PoseMsgs == { [x_m |-> 0, y_m |-> 0, theta_rad |-> 0] }

LocalizationMsgs == { [initialized |-> TRUE], [initialized |-> FALSE] }

Opt(S) == {None} \cup {Some(m) : m \in S}

\* What LookaheadController.vel_request can answer (at most 0.40 m/s), and
\* how far the call moves goal_idx.
FollowerAnswers ==
    { [out |-> <<One \div 3, 0>>, adv |-> 1],
      [out |-> <<One \div 6, One \div 3>>, adv |-> 0] }

NoAnswer == [out |-> <<0, 0>>, adv |-> 0]

VARIABLES
    now,                                \* time.time() of the current tick
    ticks,                              \* ticks run so far
    msgs,                               \* bus messages read so far
    path_plan_msg,                      \* self.path_plan_msg
    robot_pose_msg,                     \* self.robot_pose_msg
    previous_target_velocity_msg,       \* self.previous_target_velocity_msg
    stopping_velocity_profile_linear,   \* self.stopping_velocity_profile_linear
    stopping_velocity_profile_angular,  \* self.stopping_velocity_profile_angular
    stopping_velocity_profile,          \* self.stopping_velocity_profile
    localization_initialized,           \* self.localization_initialized
    goal_idx,                           \* lookahead_controller.goal_idx
    target_velocity_msg,                \* the local target_velocity_msg at line 139
    setpoint,                           \* what the motor controller was last told
    loop,                               \* whether run is still in its while loop
    obs                                 \* what the last tick read and did

ctlVars == <<now, ticks, msgs, path_plan_msg, robot_pose_msg,
             previous_target_velocity_msg, stopping_velocity_profile_linear,
             stopping_velocity_profile_angular, stopping_velocity_profile,
             localization_initialized, goal_idx, target_velocity_msg,
             setpoint, loop, obs>>

VARIABLES
    x, z, yaw,                          \* DifferentialDriveOdometry.x, .z, .yaw
    prev_left_turns,                    \* ._prev_left_turns
    prev_right_turns,                   \* ._prev_right_turns
    ret,                                \* what the last update() returned
    odo                                 \* the calls made to the odometry so far

odoVars == <<x, z, yaw, prev_left_turns, prev_right_turns, ret, odo>>

VARIABLES
    thr,                                \* OdometryThread.run: position and locals
    rd,                                 \* a thread reading OdometryThread.pose
    committed                           \* the poses left by completed updates

thrVars == <<thr, rd, committed>>

VARIABLES
    prof_in,                            \* arguments of a call of the generator
    prof_out,                           \* the two profiles it returned
    prof_err                            \* the exception it raised

profVars == <<prof_in, prof_out, prof_err>>

VARIABLES
    fyaw,                               \* self.yaw as a float
    fcalls                              \* update and reset calls made on it

yawVars == <<fyaw, fcalls>>

VARIABLES
    pace                                \* the clock and the timing locals of run

paceVars == <<pace>>

VARIABLES
    hist                                \* what the tick before the last one did

histVars == <<hist>>

VARIABLES
    twin                                \* a second run of the control loop

twinVars == <<twin>>

vars == <<ctlVars, odoVars, thrVars, profVars, yawVars, paceVars, histVars,
          twinVars>>

\* ------------------------------------------------------------ stopping profile
CeilDiv(a, b) == IF a <= 0 THEN 0 ELSE (a + b - 1) \div b

\* The sequence s, laid out element by element.
AsSeq(s) == SubSeq(s, 1, Len(s))

\* np.arange(start, stop, step): ceil((stop - start) / step) values.
arange(start, stop, step) ==
    AsSeq([i \in 1..CeilDiv(stop - start, step) |-> start + (i - 1) * step])

\* A dict is the sequence of its <<key, value>> pairs in insertion order.
\* The profile for one axis: {t + curr_time: v - rate * t for t in time_steps}.
ProfileOf(v, rate, time_steps, curr_time) ==
    AsSeq([i \in 1..Len(time_steps) |->
              <<time_steps[i] + curr_time, v - rate * time_steps[i]>>])

generate_stopping_velocity_profile(msg, decel_time_s, curr_time) ==
    LET linear_velocity_mps == msg.linear_velocity_mps
        angular_velocity_radps == msg.angular_velocity_radps
        time_to_stop == decel_time_s
        time_steps == arange(0, time_to_stop + resolution, resolution)
        deceleration_rate_linear == linear_velocity_mps \div time_to_stop
        deceleration_rate_angular == angular_velocity_radps \div time_to_stop
    IN  << ProfileOf(linear_velocity_mps, deceleration_rate_linear,
                     time_steps, curr_time),
           ProfileOf(angular_velocity_radps, deceleration_rate_angular,
                     time_steps, curr_time) >>

\* min(profile.keys(), key=lambda x: abs(x - t)): the first key, in insertion
\* order, at the least distance from t.  NearestIndex is its position in the
\* dict: the least pair <<distance, position>>, each pair counted as the
\* number distance * (Len(d) + 1) + position.
SetMin(S) == CHOOSE m \in S : \A k \in S : m <= k

NearestIndex(d, t) ==
    LET n == Len(d)
    IN  SetMin({Abs(d[i][1] - t) * (n + 1) + i : i \in 1..n}) % (n + 1)

nearest_timestamp(d, t) == d[NearestIndex(d, t)][1]

\* ------------------------------------------------------------ ControlNode.run
\* Lines 77-90: the plan held after a path plan message (or none) was read.
PlanAfterMessage(held, msg) ==
    IF msg = None THEN held
    ELSE IF held = None THEN msg
    ELSE IF Val(msg).path_pose_list # Val(held).path_pose_list THEN msg
    ELSE held

\* Lines 84-87: goal_idx is reset when a held plan is replaced by another.
GoalIdxAfterMessage(held, msg, g) ==
    IF msg # None /\ held # None
       /\ Val(msg).path_pose_list # Val(held).path_pose_list
    THEN 0 ELSE g

\* Mutant: the age is taken with the wrong sign, so no plan is ever too old.
PlanAfterStalenessCheck_WrongSign(held, t) ==
    IF held # None /\ Val(held).timestamp - t > PlanMaxAge THEN None ELSE held

\* Lines 94-95: a plan older than 5.0 s is dropped.
PlanAfterStalenessCheck(held, t) ==
    IF held # None /\ t - Val(held).timestamp > PlanMaxAge THEN None ELSE held

\* Line 100.
CanFollow(plan, pose) == plan # None /\ pose # None

\* Line 119.
InStoppingWindow_Inclusive(prev, t) ==
    prev # None /\ Val(prev).timestamp >= t - CommandMaxAge

InStoppingWindow_NoAgeCheck(prev, t) == prev # None

InStoppingWindow_PlanAge(prev, t) ==
    prev # None /\ Val(prev).timestamp > t - PlanMaxAge

InStoppingWindow(prev, t) ==
    prev # None /\ Val(prev).timestamp > t - CommandMaxAge

\* Line 120.
NeedProfile(lin, ang) == lin = None \/ ang = None

\* Lines 106-109.
FollowingCommand(out, t) ==
    [linear_velocity_mps |-> out[1], angular_velocity_radps |-> out[2],
     timestamp |-> t]

\* Lines 123-130: profile[nearest timestamp] for each axis (the keys of a
\* dict are distinct, so the value under the nearest key is the value at its
\* position).
StoppingCommand(lin, ang, t) ==
    [linear_velocity_mps |-> lin[NearestIndex(lin, t)][2],
     angular_velocity_radps |-> ang[NearestIndex(ang, t)][2],
     timestamp |-> t]

\* Mutant: the Idle branch builds no message and leaves the local as read.
IdleCommand_None(t) == None

\* Lines 134-137.
IdleCommand(t) ==
    Some([linear_velocity_mps |-> 0, angular_velocity_radps |-> 0,
          timestamp |-> t])

\* LookaheadController.vel_request keeps its progress in goal_idx; adv is
\* how far this call moves it.
vel_request_goal_idx(g, adv) == IF g + adv > MaxGoalIdx THEN g ELSE g + adv

\* Mutant: the target velocity message is looked at before the plan.
Branch_TargetFirst(plan, pose, tmsg, prev, t) ==
    IF tmsg # None THEN "ExternalCommand"
    ELSE IF CanFollow(plan, pose) THEN "Following"
    ELSE IF InStoppingWindow(prev, t) THEN "Stopping"
    ELSE "Idle"

\* Lines 100, 112, 117, 119 and 131: the branch of the if/elif/else taken.
\* plan is the plan held after the staleness check, tmsg the target velocity
\* message read at line 73, prev the last adopted command.
Branch(plan, pose, tmsg, prev, t) ==
    IF CanFollow(plan, pose) THEN "Following"
    ELSE IF tmsg # None THEN "ExternalCommand"
    ELSE IF InStoppingWindow(prev, t) THEN "Stopping"
    ELSE "Idle"

\* Lines 120-121: the profiles consulted by a Stopping tick.
ProfilesForStop(prev, lin, ang, t) ==
    IF NeedProfile(lin, ang)
    THEN LET fresh == generate_stopping_velocity_profile(Val(prev), DecelTime, t)
         IN  <<Some(fresh[1]), Some(fresh[2])>>
    ELSE <<lin, ang>>

ProfileAfterCommand_Kept(held) == held

\* Lines 115-116: a direct command clears the profile of each axis.
ProfileAfterCommand(held) == None

\* Lines 101-137: the command that reaches line 139 and the arbiter's fields
\* after the branch; out is the answer of vel_request.
\* held is the arbiter's fields before the branch.
ArbitrateOn(held, branch, tmsg, out, t) ==
    CASE branch = "Following" ->
            [cmd |-> Some(FollowingCommand(out, t)),
             previous |-> Some(FollowingCommand(out, t)),
             linear |-> held.linear,
             angular |-> held.angular,
             profile |-> held.profile]
      [] branch = "ExternalCommand" ->
            [cmd |-> tmsg,
             previous |-> tmsg,
             linear |-> ProfileAfterCommand(held.linear),
             angular |-> ProfileAfterCommand(held.angular),
             profile |-> held.profile]
      [] branch = "Stopping" ->
            LET p == ProfilesForStop(held.previous, held.linear,
                                     held.angular, t)
            IN  [cmd |-> Some(StoppingCommand(Val(p[1]), Val(p[2]), t)),
                 previous |-> held.previous,
                 linear |-> p[1],
                 angular |-> p[2],
                 profile |-> held.profile]
      [] branch = "Idle" ->
            [cmd |-> IdleCommand(t),
             previous |-> None,
             linear |-> held.linear,
             angular |-> held.angular,
             profile |-> None]

\* The arbiter's fields of the running node.
Held ==
    [previous |-> previous_target_velocity_msg,
     linear |-> stopping_velocity_profile_linear,
     angular |-> stopping_velocity_profile_angular,
     profile |-> stopping_velocity_profile]

Arbitrate(branch, tmsg, out, t) == ArbitrateOn(Held, branch, tmsg, out, t)

\* Mutant: once set, the flag is never taken back.
FlagAfterMessage_Latched(flag, lmsg) ==
    IF lmsg # None THEN flag \/ Val(lmsg).initialized ELSE flag

\* Lines 139-140.
FlagAfterMessage(flag, lmsg) ==
    IF lmsg # None THEN Val(lmsg).initialized ELSE flag

\* Mutant: the actuator is written whatever the flag says.
GateOpen_Always(flag) == TRUE

\* Line 142: the actuator and the telemetry are reached only with the flag set.
GateOpen(flag) == flag

\* Lines 143-151: set_linear_angular_velocities(linear, angular) of the command.
SetpointOf(cmd) ==
    Some(<<Val(cmd).linear_velocity_mps, Val(cmd).angular_velocity_radps>>)

NoObs ==
    [state |-> "Init", in_plan |-> None, in_target |-> None,
     in_localization |-> None, plan_dropped |-> FALSE,
     called |-> None, last_called |-> None, prev_called |-> None,
     set_calls |-> 0, publishes |-> 0, raised |-> FALSE, failed |-> "none",
     profile_before |-> FALSE, steps |-> <<>>]

\* Lines 68-69: inside the try, in the while loop, nothing torn down.
Looping == [alive |-> TRUE, cause |-> "none", teardown |-> <<>>]

NotStarted == [alive |-> FALSE, cause |-> "none", teardown |-> <<>>]

TickSteps_WriteFirst(open, fail) ==
    <<"get_latest_message(localization_initialized)",
      "get_latest_message(target_velocity)",
      "get_latest_message(path_plan)">>
    \o (IF open THEN <<"set_linear_angular_velocities">> ELSE <<>>)
    \o <<"get_latest_message(robot_pose)", "arbitrate">>
    \o (IF open /\ fail = "none" THEN <<"publish_msg(wheel_velocities)">>
        ELSE <<>>)

\* The calls of one iteration in the order of lines 72-151; the gate of line
\* 142 is open or not, and a call that raises ends the iteration.
TickSteps(open, fail) ==
    <<"get_latest_message(localization_initialized)",
      "get_latest_message(target_velocity)",
      "get_latest_message(path_plan)",
      "get_latest_message(robot_pose)",
      "arbitrate">>
    \o (IF open THEN <<"set_linear_angular_velocities">> ELSE <<>>)
    \o (IF open /\ fail = "none" THEN <<"publish_msg(wheel_velocities)">>
        ELSE <<>>)

\* Mutant: the bus clients are stopped first.
LeftLoop_BusFirst(cause) ==
    [alive |-> FALSE, cause |-> cause,
     teardown |-> <<"mqtt_subscriber.stop", "mqtt_publisher.stop",
                    "controller.stop">>]

\* Lines 158-163: an exception leaves the while loop (KeyboardInterrupt is
\* logged at line 159, any other matches no except clause), the finally block
\* runs and run is left.
LeftLoop(cause) ==
    [alive |-> FALSE, cause |-> cause,
     teardown |-> <<"controller.stop", "mqtt_subscriber.stop",
                    "mqtt_publisher.stop">>]

\* Line 161 raises in its turn: the rest of the finally block is not run.
LeftLoopStopRaises(cause) ==
    [LeftLoop(cause) EXCEPT !.teardown = SubSeq(LeftLoop(cause).teardown, 1, 1)]

\* How run ends after an actuator call has raised: the actuator that failed
\* in the tick may fail again when it is told to stop.
LeavingOnError == {LeftLoop("error"), LeftLoopStopRaises("error")}

\* Where the actuator can fail in a tick: in set_linear_angular_velocities
\* (line 143) or in the wheel velocity reads (lines 145-146).
ActuatorFailures == {"set", "read"}

CtlFields ==
    /\ now = 0
    /\ ticks = 0
    /\ msgs = 0
    /\ path_plan_msg = None
    /\ robot_pose_msg = None
    /\ previous_target_velocity_msg = None
    /\ stopping_velocity_profile_linear = None
    /\ stopping_velocity_profile_angular = None
    /\ stopping_velocity_profile = None
    /\ localization_initialized = FALSE
    /\ goal_idx = 0
    /\ target_velocity_msg = None
    /\ setpoint = None
    /\ obs = NoObs

\* run has been called and is in its loop.
CtlInit == CtlFields /\ loop = Looping

\* No ControlNode is running.
CtlOff == CtlFields /\ loop = NotStarted

\* One iteration of the while loop, lines 70-156, dt after the previous one.
\* ans is what vel_request answers and does to goal_idx if it is called;
\* fail is where the actuator raises in this tick, if it does.
Tick(branch, dt, tmsg, pmsg, posemsg, ans, fail) ==
    LET t == now + dt
        held == PlanAfterMessage(path_plan_msg, pmsg)
        g == GoalIdxAfterMessage(path_plan_msg, pmsg, goal_idx)
        plan == PlanAfterStalenessCheck(held, t)
        following == branch = "Following"
    IN  /\ loop.alive
        /\ msgs + Len(tmsg) + Len(pmsg) + Len(posemsg) <= MaxMsgs
        /\ branch = Branch(plan, posemsg, tmsg, previous_target_velocity_msg, t)
        /\ \E a \in {Arbitrate(branch, tmsg, ans.out, t)},
              lmsg \in Opt(LocalizationMsgs) :
            LET flag == FlagAfterMessage(localization_initialized, lmsg)
                open == GateOpen(flag)
                fails == open /\ a.cmd = None
                read == Len(tmsg) + Len(pmsg) + Len(posemsg) + Len(lmsg)
            IN  /\ msgs + read <= MaxMsgs
                /\ fail # "none" => open /\ ~fails
                /\ msgs' = msgs + read
                /\ now' = t
                /\ ticks' = ticks + 1
                /\ path_plan_msg' = plan
                /\ robot_pose_msg' = posemsg
                /\ goal_idx' = IF following THEN vel_request_goal_idx(g, ans.adv)
                                ELSE g
                /\ previous_target_velocity_msg' = a.previous
                /\ stopping_velocity_profile_linear' = a.linear
                /\ stopping_velocity_profile_angular' = a.angular
                /\ stopping_velocity_profile' = a.profile
                /\ target_velocity_msg' = a.cmd
                /\ localization_initialized' = flag
                /\ setpoint' = IF open /\ ~fails /\ fail # "set"
                                THEN SetpointOf(a.cmd)
                                ELSE setpoint
                /\ loop' \in IF fail = "none" THEN {loop} ELSE LeavingOnError
                /\ obs' = [state |-> branch,
                           in_plan |-> pmsg,
                           in_target |-> tmsg,
                           in_localization |-> lmsg,
                           plan_dropped |-> (held # None /\ plan = None),
                           called |-> IF following
                                      THEN Some([path |-> Val(plan).path_pose_list,
                                                 timestamp |-> Val(plan).timestamp,
                                                 goal_idx |-> g, out |-> ans.out])
                                      ELSE None,
                           last_called |-> IF following
                                           THEN Some(Val(plan).path_pose_list)
                                           ELSE obs.last_called,
                           prev_called |-> obs.last_called,
                           set_calls |-> IF open /\ ~fails THEN 1 ELSE 0,
                           publishes |-> IF open /\ ~fails /\ fail = "none"
                                         THEN 1 ELSE 0,
                           raised |-> fails,
                           failed |-> fail,
                           profile_before |->
                               (stopping_velocity_profile_linear # None \/
                                stopping_velocity_profile_angular # None),
                           steps |-> TickSteps(open /\ ~fails, fail)]

TickFollowing ==
    /\ ticks < MaxTicks
    /\ \E dt \in TickGaps, posemsg \in Opt(PoseMsgs), ans \in FollowerAnswers :
        \E tmsg \in Opt(TargetMsgs(now + dt)), pmsg \in Opt(PlanMsgs(now + dt)) :
            Tick("Following", dt, tmsg, pmsg, posemsg, ans, "none")

TickOther(branch) ==
    /\ ticks < MaxTicks
    /\ \E dt \in TickGaps, posemsg \in Opt(PoseMsgs) :
        \E tmsg \in Opt(TargetMsgs(now + dt)), pmsg \in Opt(PlanMsgs(now + dt)) :
            Tick(branch, dt, tmsg, pmsg, posemsg, NoAnswer, "none")

TickExternalCommand == TickOther("ExternalCommand")
TickStopping == TickOther("Stopping")
TickIdle == TickOther("Idle")

CtlNext == TickFollowing \/ TickExternalCommand \/ TickStopping \/ TickIdle

\* A tick in which the actuator raises: at line 143, or at lines 145-146.
TickActuatorFails ==
    /\ ticks < MaxTicks
    /\ \E dt \in TickGaps, posemsg \in Opt(PoseMsgs), ans \in FollowerAnswers,
          fail \in ActuatorFailures :
        \E tmsg \in Opt(TargetMsgs(now + dt)), pmsg \in Opt(PlanMsgs(now + dt)) :
            LET t == now + dt
                plan == PlanAfterStalenessCheck(
                            PlanAfterMessage(path_plan_msg, pmsg), t)
                branch == Branch(plan, posemsg, tmsg,
                                 previous_target_velocity_msg, t)
            IN  Tick(branch, dt, tmsg, pmsg, posemsg,
                     IF branch = "Following" THEN ans ELSE NoAnswer, fail)

\* Direct commands that are 2.0 s and 4.0 s old when the tick at t reads them.
AgedTargetMsgs(t) ==
    { [linear_velocity_mps |-> One \div 2, angular_velocity_radps |-> 0,
       timestamp |-> t - CommandMaxAge],
      [linear_velocity_mps |-> 0, angular_velocity_radps |-> 0 - One,
       timestamp |-> t - 2 * CommandMaxAge] }

\* A tick that reads such a command.
TickAgedCommand ==
    /\ ticks < MaxTicks
    /\ \E dt \in TickGaps, posemsg \in Opt(PoseMsgs), ans \in FollowerAnswers :
        \E tmsg \in AgedTargetMsgs(now + dt), pmsg \in Opt(PlanMsgs(now + dt)) :
            LET t == now + dt
                plan == PlanAfterStalenessCheck(
                            PlanAfterMessage(path_plan_msg, pmsg), t)
                branch == Branch(plan, posemsg, Some(tmsg),
                                 previous_target_velocity_msg, t)
            IN  Tick(branch, dt, Some(tmsg), pmsg, posemsg,
                     IF branch = "Following" THEN ans ELSE NoAnswer, "none")

\* A second ControlNode, started like the first (lines 56-61).
TwinInit ==
    twin = [path_plan_msg |-> None, goal_idx |-> 0, previous |-> None,
            linear |-> None, angular |-> None, profile |-> None,
            target_velocity_msg |-> None, localization_initialized |-> FALSE,
            setpoint |-> None, state |-> "Init"]

\* The second node after it arbitrated (a) and passed the gate.
TwinFields(a, plan, g, flag, branch, old_setpoint) ==
    [path_plan_msg |-> plan,
     goal_idx |-> g,
     previous |-> a.previous,
     linear |-> a.linear,
     angular |-> a.angular,
     profile |-> a.profile,
     target_velocity_msg |-> a.cmd,
     localization_initialized |-> flag,
     setpoint |-> IF GateOpen(flag) THEN SetpointOf(a.cmd) ELSE old_setpoint,
     state |-> branch]

\* Mutant: the whole iteration is skipped until the flag is set.
TwinTick_GatedArbiter(tw, t, tmsg, pmsg, posemsg, ans, lmsg) ==
    LET flag == FlagAfterMessage(tw.localization_initialized, lmsg)
    IN  [tw EXCEPT !.localization_initialized = flag,
                   !.state = IF flag THEN "Idle" ELSE tw.state]

\* One iteration (lines 70-151) of the second node at time t: the fields it
\* ends with, given what it holds and what it reads.
TwinTick(tw, t, tmsg, pmsg, posemsg, ans, lmsg) ==
    LET held == PlanAfterMessage(tw.path_plan_msg, pmsg)
        g == GoalIdxAfterMessage(tw.path_plan_msg, pmsg, tw.goal_idx)
        plan == PlanAfterStalenessCheck(held, t)
        branch == Branch(plan, posemsg, tmsg, tw.previous, t)
        following == branch = "Following"
        flag == FlagAfterMessage(tw.localization_initialized, lmsg)
    IN  TwinFields(ArbitrateOn(tw, branch, tmsg,
                               IF following THEN ans.out ELSE NoAnswer.out, t),
                   plan,
                   IF following THEN vel_request_goal_idx(g, ans.adv) ELSE g,
                   flag, branch, tw.setpoint)

\* Both nodes run an iteration at the same time and read the same plan, pose
\* and target velocity messages.  The first reads any localization message,
\* the second never reads one: two runs that each agree with the second
\* agree with each other.
TickBoth ==
    /\ ticks < MaxTwinTicks
    /\ \E dt \in TickGaps, posemsg \in Opt(PoseMsgs) :
        \E tmsg \in Opt(TargetMsgs(now + dt)), pmsg \in Opt(PlanMsgs(now + dt)) :
            LET t == now + dt
                plan == PlanAfterStalenessCheck(
                            PlanAfterMessage(path_plan_msg, pmsg), t)
                branch == Branch(plan, posemsg, tmsg,
                                 previous_target_velocity_msg, t)
            IN  \E ans \in IF branch = "Following" THEN FollowerAnswers
                            ELSE {NoAnswer} :
                    /\ Tick(branch, dt, tmsg, pmsg, posemsg, ans, "none")
                    /\ twin' = TwinTick(twin, t, tmsg, pmsg, posemsg, ans, None)

\* The branch, the direct command and the time of the tick before the last.
HistInit == hist = [state |-> "Init", in_target |-> None, now |-> 0]

Remember == hist' = [state |-> obs.state, in_target |-> obs.in_target,
                     now |-> now]

\* KeyboardInterrupt reaches the loop between two iterations, in the sleep of
\* line 156: lines 158-163.
Interrupt ==
    /\ loop.alive
    /\ loop' = LeftLoop("interrupt")
    /\ UNCHANGED <<now, ticks, msgs, path_plan_msg, robot_pose_msg,
                   previous_target_velocity_msg,
                   stopping_velocity_profile_linear,
                   stopping_velocity_profile_angular,
                   stopping_velocity_profile, localization_initialized,
                   goal_idx, target_velocity_msg, setpoint, obs>>

\* ------------------------------------------------------------ generator calls
\* Stop durations: half a step, one step, one and a half, two steps, 2.0 s,
\* and the durations no stop can have: zero, minus half a step, minus two.
DecelTimes ==
    {resolution \div 2, resolution, 3 * (resolution \div 2), 2 * resolution,
     DecelTime, 0, 0 - resolution \div 2, 0 - 2 * resolution}

ProfileVels == {0 - One, 0, One, 2 * One}

CallTimes == {0, 7}

ProfIdle == prof_in = None /\ prof_out = None /\ prof_err = None

\* Lines 214-215 with time_to_stop = 0: a Python number divided by zero
\* raises ZeroDivisionError; a numpy scalar gives inf or nan instead, and the
\* one entry of each table (t = 0, lines 217-218) is then v - rate * 0 = nan.
NaN == "nan"
DivisionByZero == {"ZeroDivisionError", NaN}

ProfInit ==
    /\ \E l \in ProfileVels, a \in ProfileVels, T \in DecelTimes, c \in CallTimes :
          prof_in = Some([msg |-> [linear_velocity_mps |-> l,
                                   angular_velocity_radps |-> a,
                                   timestamp |-> c],
                          decel_time_s |-> T, curr_time |-> c])
    /\ prof_out = None
    /\ prof_err = None

\* A call of generate_stopping_velocity_profile (lines 207-219).
Generate ==
    /\ prof_in # None
    /\ prof_out = None
    /\ prof_err = None
    /\ IF Val(prof_in).decel_time_s = 0
       THEN \E outcome \in DivisionByZero :
              IF outcome = NaN
              THEN LET table == << <<Val(prof_in).curr_time, NaN>> >>
                   IN  prof_out' = Some(<<table, table>>) /\ prof_err' = None
              ELSE prof_out' = None /\ prof_err' = Some(outcome)
       ELSE /\ prof_out' = Some(generate_stopping_velocity_profile(
                                   Val(prof_in).msg, Val(prof_in).decel_time_s,
                                   Val(prof_in).curr_time))
            /\ prof_err' = None
    /\ UNCHANGED prof_in

\* ------------------------------------------------------------ odometry
\* Yaw is counted in eighths of a turn, lengths so that one encoder count of
\* wheel travel is 2 and a wheel base of arc is one yaw unit, and x and z in
\* thousandths of a length.  CosTab is 1000 * cos at each sixteenth of a turn.
CosTab ==
    <<1000, 924, 707, 383, 0, -383, -707, -924,
      -1000, -924, -707, -383, 0, 383, 707, 924>>

HalfSteps == Len(CosTab)
TwoPi == HalfSteps \div 2

\* math.cos and math.sin of a heading given in half yaw units.
CosHalf(h) == CosTab[(h % HalfSteps) + 1]
SinHalf(h) == CosHalf(h - HalfSteps \div 4)

wheel_base == 2
circumference == 2
\* 1e-6 rad, less than any heading change the encoder counts can make.
Epsilon == 0

TurnSamples == -2..2
InitialYaws == {0, 3}

\* Lines 98-99.
WheelTravel(turns, prev_turns) == (turns - prev_turns) * circumference
\* Line 105.
ForwardDistance(dl, dr) == (dl + dr) \div 2
\* Line 106.
HeadingChange(dl, dr) == (dr - dl) \div wheel_base
\* Mutant: the position advances along the yaw after the update.
Heading_AfterYaw(yaw0, dtheta) == 2 * (yaw0 + dtheta)

\* Lines 110-123: the heading the position advances along, in half yaw units.
Heading(yaw0, dtheta) ==
    IF Abs(dtheta) > Epsilon THEN 2 * yaw0 + dtheta ELSE 2 * yaw0
\* Lines 118 and 122.
NextX(x0, yaw0, dc, dtheta) == x0 + dc * CosHalf(Heading(yaw0, dtheta))
\* Lines 119 and 123.
NextZ(z0, yaw0, dc, dtheta) == z0 + dc * SinHalf(Heading(yaw0, dtheta))
\* Floating point.  A float of the model has MantissaBits significant bits
\* and is counted in eighths of a yaw unit, so that every whole number of yaw
\* units up to two turns is a float, the floats just below a whole turn are
\* half a yaw unit apart, and those near zero are an eighth of a unit apart.
MantissaBits == 4
Fine == 2 ^ (MantissaBits - 1)
Powers == {2 ^ i : i \in 0..7}

\* v rounded to the nearest float, ties to the even mantissa.
Fl(v) ==
    IF v = 0 THEN 0
    ELSE LET a == Abs(v)
             e == CHOOSE q \in Powers : q <= a /\ a < 2 * q
             ulp == IF e >= Fine THEN e \div Fine ELSE 1
             q == a \div ulp
             r == a % ulp
             up == 2 * r > ulp \/ (2 * r = ulp /\ q % 2 = 1)
             m == (IF up THEN q + 1 ELSE q) * ulp
         IN  IF v < 0 THEN 0 - m ELSE m

\* C fmod: the remainder with the sign of a, always exact.
Fmod(a, b) == IF a < 0 THEN 0 - (Abs(a) % b) ELSE a % b

\* Python's a % b on floats, b > 0: fmod, and b added to a negative remainder.
FloatRem(a, b) ==
    LET mod == Fmod(a, b)
    IN  IF mod < 0 THEN Fl(mod + b) ELSE mod

\* Line 125 on floats: (self.yaw + dtheta) % (2 * math.pi).
WrapYaw(a, d) == FloatRem(Fl(a + d), Fine * TwoPi)

NextYaw_NoWrap(yaw0, dtheta) == yaw0 + dtheta

\* Line 125, for a yaw and a heading change in whole yaw units.
NextYaw(yaw0, dtheta) == WrapYaw(Fine * yaw0, Fine * dtheta) \div Fine

update_NoCalibration(o, left_turns, right_turns) ==
    LET pl == IF o.prev_left_turns = None THEN 0 ELSE Val(o.prev_left_turns)
        pr == IF o.prev_right_turns = None THEN 0 ELSE Val(o.prev_right_turns)
        dl == WheelTravel(left_turns, pl)
        dr == WheelTravel(right_turns, pr)
        dc == ForwardDistance(dl, dr)
        dtheta == HeadingChange(dl, dr)
        nx == NextX(o.x, o.yaw, dc, dtheta)
        nz == NextZ(o.z, o.yaw, dc, dtheta)
        nyaw == NextYaw(o.yaw, dtheta)
    IN  [x |-> nx, z |-> nz, yaw |-> nyaw,
         prev_left_turns |-> Some(left_turns),
         prev_right_turns |-> Some(right_turns),
         ret |-> Some(<<nx, nz, nyaw>>)]

\* Lines 91-126: the object after update(left_turns, right_turns) and what the
\* call returns.
update(o, left_turns, right_turns) ==
    IF o.prev_left_turns = None
    THEN [o EXCEPT !.prev_left_turns = Some(left_turns),
                   !.prev_right_turns = Some(right_turns),
                   !.ret = Some(<<o.x, o.z, o.yaw>>)]
    ELSE LET dl == WheelTravel(left_turns, Val(o.prev_left_turns))
             dr == WheelTravel(right_turns, Val(o.prev_right_turns))
             dc == ForwardDistance(dl, dr)
             dtheta == HeadingChange(dl, dr)
             nx == NextX(o.x, o.yaw, dc, dtheta)
             nz == NextZ(o.z, o.yaw, dc, dtheta)
             nyaw == NextYaw(o.yaw, dtheta)
         IN  [x |-> nx, z |-> nz, yaw |-> nyaw,
              prev_left_turns |-> Some(left_turns),
              prev_right_turns |-> Some(right_turns),
              ret |-> Some(<<nx, nz, nyaw>>)]

reset_KeepsReadings(o) == [o EXCEPT !.x = 0, !.z = 0, !.yaw = 0]

\* Lines 69-72.
reset(o) ==
    [o EXCEPT !.x = 0, !.z = 0, !.yaw = 0,
              !.prev_left_turns = None, !.prev_right_turns = None]

Object ==
    [x |-> x, z |-> z, yaw |-> yaw, prev_left_turns |-> prev_left_turns,
     prev_right_turns |-> prev_right_turns, ret |-> ret]

SetObject(o) ==
    /\ x' = o.x
    /\ z' = o.z
    /\ yaw' = o.yaw
    /\ prev_left_turns' = o.prev_left_turns
    /\ prev_right_turns' = o.prev_right_turns
    /\ ret' = o.ret

NoCalls ==
    [updates |-> 0, last |-> "new", cal |-> None, steps |-> <<>>,
     resets |-> 0, since |-> <<>>, stale |-> None]

\* DifferentialDriveOdometry(yaw=yaw0): lines 56-67.
OdoFresh(yaw0) ==
    /\ x = 0 /\ z = 0 /\ yaw = yaw0
    /\ prev_left_turns = None /\ prev_right_turns = None
    /\ ret = None
    /\ odo = NoCalls

OdoInit == \E yaw0 \in InitialYaws : OdoFresh(yaw0)

\* A call of update; odo keeps the calibration sample, the yaw at that call
\* and the heading change of every integrating call since, the samples given
\* since construction or the last reset, and the readings that were cached
\* when reset was last called.
OdoUpdate ==
    /\ odo.updates < MaxUpdates
    /\ \E left_turns \in TurnSamples, right_turns \in TurnSamples :
          /\ SetObject(update(Object, left_turns, right_turns))
          /\ odo' = IF prev_left_turns = None
                    THEN [odo EXCEPT
                            !.updates = odo.updates + 1,
                            !.last = "update",
                            !.cal = Some([left |-> left_turns,
                                          right |-> right_turns, yaw |-> yaw]),
                            !.steps = <<>>,
                            !.since = Append(odo.since,
                                             <<left_turns, right_turns>>)]
                    ELSE [odo EXCEPT
                            !.updates = odo.updates + 1,
                            !.last = "update",
                            !.since = Append(odo.since,
                                             <<left_turns, right_turns>>),
                            !.steps = Append(odo.steps,
                                <<WheelTravel(left_turns, Val(prev_left_turns)),
                                  WheelTravel(right_turns, Val(prev_right_turns))>>)]

\* A call of reset.
OdoReset ==
    /\ odo.last = "update"
    /\ SetObject(reset(Object))
    /\ odo' = [odo EXCEPT !.last = "reset", !.cal = None, !.steps = <<>>,
                           !.resets = odo.resets + 1, !.since = <<>>,
                           !.stale = Some(<<Val(prev_left_turns),
                                            Val(prev_right_turns)>>)]

OdoNext == OdoUpdate \/ OdoReset

\* The yaw of the odometry in floating point.  Heading changes an update can
\* compute from two encoder samples: an eighth of a yaw unit, one unit, three
\* units and more than a turn, either way.
FloatHeadingChanges ==
    {1, -1, Fine, 0 - Fine, 3 * Fine, 0 - 3 * Fine, 10 * Fine, 0 - 10 * Fine}

\* DifferentialDriveOdometry(): yaw = 0.0, line 64.
YawInit == fyaw = 0 /\ fcalls = 0

\* An integrating update, line 125; what it does to x and z (lines 110-123)
\* does not enter the yaw.
YawUpdate ==
    /\ fcalls < MaxWraps
    /\ \E fdtheta \in FloatHeadingChanges : fyaw' = WrapYaw(fyaw, fdtheta)
    /\ fcalls' = fcalls + 1

\* reset, line 71.
YawReset ==
    /\ fcalls < MaxWraps
    /\ fyaw # 0
    /\ fyaw' = 0
    /\ fcalls' = fcalls + 1

YawNext == YawUpdate \/ YawReset

\* ------------------------------------------------------------ loop timing
\* How long the body of one iteration (lines 72-151) can take: no time, half
\* a period, exactly a period, a period and a half, two periods and a half.
TickDurations == {0, Period \div 2, Period, 3 * (Period \div 2), 5 * (Period \div 2)}

\* time.sleep(s) returns after s or later.
Oversleeps == {0, Period \div 2}

\* Mutant: the time the body took is not taken off.
sleep_time_FullPeriod(start_time, end_time) == Period

\* Line 154.
sleep_time(start_time, end_time) == Period - (end_time - start_time)

\* clock is time.time() where run stands; start_time, end_time and sleep are
\* those of the last iteration (sleep the argument of time.sleep, if it was
\* called), took how long its body took and took_prev the one before it.
PaceInit ==
    pace = [clock |-> 0, iters |-> 0, start_time |-> 0, end_time |-> 0,
            sleep |-> None, took |-> 0, took_prev |-> 0]

\* Lines 70 and 153-156 of an iteration whose body takes d.
Pace(d, over) ==
    LET start_time == pace.clock
        end_time == start_time + d
        s == sleep_time(start_time, end_time)
    IN  /\ pace.iters < MaxPaceIters
        /\ pace' = [clock |-> IF s > 0 THEN end_time + s + over ELSE end_time,
                    iters |-> pace.iters + 1,
                    start_time |-> start_time,
                    end_time |-> end_time,
                    sleep |-> IF s > 0 THEN Some(s) ELSE None,
                    took |-> d,
                    took_prev |-> pace.took]

\* An iteration that ends in time.sleep (line 156).
PaceSleep ==
    \E d \in TickDurations, over \in Oversleeps :
        sleep_time(0, d) > 0 /\ Pace(d, over)

\* An iteration that goes straight to the next one.
PaceOverrun ==
    \E d \in TickDurations : sleep_time(0, d) <= 0 /\ Pace(d, 0)

PaceNext == PaceSleep \/ PaceOverrun

\* ------------------------------------------------------------ OdometryThread
\* The thread's position and locals; _running is set at construction (line
\* 138).  pair is the last pair of samples read in one iteration, pair_prev
\* the pair before it, failed whether a read of this iteration raised, and
\* dropped the left reading of the last iteration whose right read raised;
\* stop_at is where the thread stood when stop was called, and after_stop
\* the calls of update begun since.
NoLocals == [pc |-> "loop", iters |-> 0, l_turns |-> 0, r_turns |-> 0,
             dc |-> 0, dtheta |-> 0, steps |-> <<>>, running |-> TRUE,
             pair |-> None, pair_prev |-> None, failed |-> FALSE,
             dropped |-> None, stop_at |-> None, after_stop |-> 0]
NoThread == [NoLocals EXCEPT !.pc = "none"]
NoRead == [pc |-> "idle", reads |-> 0, x |-> 0, z |-> 0, yaw |-> 0]

\* No OdometryThread has been constructed.
ThrIdle == thr = NoThread /\ rd = NoRead /\ committed = {}

\* OdometryThread(odrv): self.odo = DifferentialDriveOdometry(), line 135.
ThrInit == thr = NoLocals /\ rd = NoRead /\ committed = {<<0, 0, 0>>}

\* Mutant: the loop does not look at _running.
ThrLoopWithin_IgnoresStop(n) ==
    /\ thr.pc = "loop"
    /\ thr.iters < n
    /\ thr' = [thr EXCEPT !.pc = "read_left", !.steps = <<>>,
                          !.failed = FALSE]
    /\ UNCHANGED <<odoVars, rd, committed>>

\* Line 161, with _running set: the loop is entered again.
ThrLoopWithin(n) ==
    /\ thr.pc = "loop"
    /\ thr.running
    /\ thr.iters < n
    /\ thr' = [thr EXCEPT !.pc = "read_left", !.steps = <<>>,
                          !.failed = FALSE]
    /\ UNCHANGED <<odoVars, rd, committed>>

ThrLoop == ThrLoopWithin(MaxIters)

\* Line 161, with _running cleared: run returns.
ThrExit ==
    /\ thr.pc = "loop"
    /\ ~thr.running
    /\ thr' = [thr EXCEPT !.pc = "exited"]
    /\ UNCHANGED <<odoVars, rd, committed>>

\* OdometryThread.stop (lines 213-214), called by another thread wherever
\* run stands.
ThrStop ==
    /\ thr.running
    /\ thr.pc # "none"
    /\ thr' = [thr EXCEPT !.running = FALSE,
                          !.stop_at = Some([pc |-> thr.pc, iters |-> thr.iters])]
    /\ UNCHANGED <<odoVars, rd, committed>>

\* What the two encoders can read while the thread runs.
ThreadSamples == 0..2

\* Line 163.
ThrReadLeft ==
    /\ thr.pc = "read_left"
    /\ \E l \in ThreadSamples : thr' = [thr EXCEPT !.pc = "read_right", !.l_turns = l,
                          !.steps = Append(thr.steps, "get_position_turns_left")]
    /\ UNCHANGED <<odoVars, rd, committed>>

\* Line 164.
ThrReadRight ==
    /\ thr.pc = "read_right"
    /\ \E r \in ThreadSamples : thr' = [thr EXCEPT !.pc = "update", !.r_turns = r,
                          !.steps = Append(thr.steps, "get_position_turns_right"),
                          !.pair = Some(<<thr.l_turns, r>>),
                          !.pair_prev = thr.pair]
    /\ UNCHANGED <<odoVars, rd, committed>>

\* Mutant: the handler goes on with the rest of the try block.
AfterReadError_Continue(t) ==
    [t EXCEPT !.pc = "update", !.failed = TRUE,
              !.steps = Append(t.steps, "error"),
              !.dropped = IF t.pc = "read_right" THEN Some(t.l_turns)
                          ELSE t.dropped]

\* Lines 209-211: an exception raised in the try block (odrive_uart.py line
\* 225: float(response) of an empty or garbled response) is caught and
\* printed, and the iteration goes on to the sleep.
AfterReadError(t) ==
    [t EXCEPT !.pc = "sleep", !.failed = TRUE,
              !.steps = Append(t.steps, "error"),
              !.dropped = IF t.pc = "read_right" THEN Some(t.l_turns)
                          ELSE t.dropped]

\* Line 163 raises.
ThrReadLeftFails ==
    /\ thr.pc = "read_left"
    /\ thr' = AfterReadError(thr)
    /\ UNCHANGED <<odoVars, rd, committed>>

\* Line 164 raises; l_turns holds the left reading of this iteration.
ThrReadRightFails ==
    /\ thr.pc = "read_right"
    /\ thr' = AfterReadError(thr)
    /\ UNCHANGED <<odoVars, rd, committed>>

\* Line 165, update lines 91-106: the first call caches and returns; a later
\* one takes the deltas and caches.
ThrUpdateBegin ==
    /\ thr.pc = "update"
    /\ prev_left_turns' = Some(thr.l_turns)
    /\ prev_right_turns' = Some(thr.r_turns)
    /\ IF prev_left_turns = None
       THEN /\ ret' = Some(<<x, z, yaw>>)
            /\ thr' = [thr EXCEPT !.pc = "sleep",
                                  !.steps = Append(thr.steps, "update"),
                                  !.after_stop = IF thr.running THEN 0
                                                 ELSE thr.after_stop + 1]
       ELSE LET dl == WheelTravel(thr.l_turns, Val(prev_left_turns))
                dr == WheelTravel(thr.r_turns, Val(prev_right_turns))
            IN  /\ thr' = [thr EXCEPT !.steps = Append(thr.steps, "update"),
                                      !.after_stop = IF thr.running THEN 0
                                                     ELSE thr.after_stop + 1,
                                      !.pc = "write_x",
                                      !.dc = ForwardDistance(dl, dr),
                                      !.dtheta = HeadingChange(dl, dr)]
                /\ UNCHANGED ret
    /\ UNCHANGED <<x, z, yaw, odo, rd, committed>>

\* Lines 118 and 122.
ThrWriteX ==
    /\ thr.pc = "write_x"
    /\ x' = NextX(x, yaw, thr.dc, thr.dtheta)
    /\ thr' = [thr EXCEPT !.pc = "write_z"]
    /\ UNCHANGED <<z, yaw, prev_left_turns, prev_right_turns, ret, odo, rd,
                   committed>>

\* Lines 119 and 123.
ThrWriteZ ==
    /\ thr.pc = "write_z"
    /\ z' = NextZ(z, yaw, thr.dc, thr.dtheta)
    /\ thr' = [thr EXCEPT !.pc = "write_yaw"]
    /\ UNCHANGED <<x, yaw, prev_left_turns, prev_right_turns, ret, odo, rd,
                   committed>>

\* Lines 125-126.
ThrWriteYaw ==
    /\ thr.pc = "write_yaw"
    /\ yaw' = NextYaw(yaw, thr.dtheta)
    /\ ret' = Some(<<x, z, yaw'>>)
    /\ committed' = committed \cup {<<x, z, yaw'>>}
    /\ thr' = [thr EXCEPT !.pc = "sleep"]
    /\ UNCHANGED <<x, z, prev_left_turns, prev_right_turns, odo, rd>>

\* Line 211.
ThrSleep ==
    /\ thr.pc = "sleep"
    /\ thr' = [thr EXCEPT !.pc = "loop", !.iters = thr.iters + 1]
    /\ UNCHANGED <<odoVars, rd, committed>>

\* OdometryThread.pose, line 150: self.odo.x, self.odo.z and self.odo.yaw are
\* read one after the other by the calling thread.
PoseBegin ==
    /\ thr.pc # "none"
    /\ rd.pc = "idle"
    /\ rd.reads < MaxReads
    /\ rd' = [rd EXCEPT !.pc = "read_x"]
    /\ UNCHANGED <<odoVars, thr, committed>>

PoseReadX ==
    /\ rd.pc = "read_x"
    /\ rd' = [rd EXCEPT !.pc = "read_z", !.x = x]
    /\ UNCHANGED <<odoVars, thr, committed>>

PoseReadZ ==
    /\ rd.pc = "read_z"
    /\ rd' = [rd EXCEPT !.pc = "read_yaw", !.z = z]
    /\ UNCHANGED <<odoVars, thr, committed>>

PoseReadYaw ==
    /\ rd.pc = "read_yaw"
    /\ rd' = [rd EXCEPT !.pc = "done", !.yaw = yaw, !.reads = rd.reads + 1]
    /\ UNCHANGED <<odoVars, thr, committed>>

PoseReturn ==
    /\ rd.pc = "done"
    /\ rd' = [rd EXCEPT !.pc = "idle"]
    /\ UNCHANGED <<odoVars, thr, committed>>

ThrNext ==
    \/ ThrLoop \/ ThrReadLeft \/ ThrReadRight \/ ThrUpdateBegin
    \/ ThrWriteX \/ ThrWriteZ \/ ThrWriteYaw \/ ThrSleep
    \/ PoseBegin \/ PoseReadX \/ PoseReadZ \/ PoseReadYaw \/ PoseReturn

\* ------------------------------------------------------------ specifications
\* The control loop.
Init == CtlInit /\ OdoFresh(0) /\ ThrIdle /\ ProfIdle /\ YawInit /\ PaceInit /\ HistInit /\ TwinInit
Next == CtlNext /\ UNCHANGED <<odoVars, thrVars, profVars, yawVars, paceVars, histVars, twinVars>>
Spec == Init /\ [][Next]_vars

\* The control loop with an actuator that can raise.
NextActuator ==
    (CtlNext \/ TickActuatorFails)
    /\ UNCHANGED <<odoVars, thrVars, profVars, yawVars, paceVars, histVars, twinVars>>
SpecActuator == Init /\ [][NextActuator]_vars

\* Either program on its own: the control node for its first MaxOrderTicks
\* ticks, or the odometry thread of the localization example with a reader
\* of its pose.
InitPrograms ==
    \/ Init
    \/ CtlOff /\ OdoFresh(0) /\ ThrInit /\ ProfIdle /\ YawInit /\ PaceInit /\ HistInit /\ TwinInit
NextPrograms ==
    \/ /\ ticks < MaxOrderTicks
       /\ CtlNext
       /\ UNCHANGED <<odoVars, thrVars, profVars, yawVars, paceVars, histVars, twinVars>>
    \/ ThrNext /\ UNCHANGED <<ctlVars, profVars, yawVars, paceVars, histVars, twinVars>>
SpecPrograms == InitPrograms /\ [][NextPrograms]_vars

\* The control loop, for its first MaxAgedTicks ticks, fed direct commands of
\* any age.
NextAged ==
    /\ ticks < MaxAgedTicks
    /\ CtlNext \/ TickAgedCommand
    /\ Remember
    /\ UNCHANGED <<odoVars, thrVars, profVars, yawVars, paceVars, twinVars>>
SpecAged == Init /\ [][NextAged]_vars

\* The control loop with every way out of it: an actuator call that raises
\* in a tick, or the user's interrupt; ticks up to MaxShutdownTicks.
NextShutdown ==
    /\ \/ ticks < MaxShutdownTicks /\ CtlNext
       \/ ticks < MaxShutdownTicks /\ TickActuatorFails
       \/ Interrupt
    /\ UNCHANGED <<odoVars, thrVars, profVars, yawVars, paceVars, histVars,
                   twinVars>>
SpecShutdown == Init /\ [][NextShutdown]_vars

\* Two control loops fed the same plan, pose and target velocity messages.
NextTwin ==
    /\ TickBoth
    /\ UNCHANGED <<odoVars, thrVars, profVars, yawVars, paceVars, histVars>>
SpecTwin == Init /\ [][NextTwin]_vars

\* The odometry object under any sequence of update and reset calls.
InitOdo == CtlInit /\ OdoInit /\ ThrIdle /\ ProfIdle /\ YawInit /\ PaceInit /\ HistInit /\ TwinInit
NextOdo == OdoNext /\ UNCHANGED <<ctlVars, thrVars, profVars, yawVars, paceVars, histVars, twinVars>>
SpecOdo == InitOdo /\ [][NextOdo]_vars

\* The odometry thread and a reader of its pose.
InitThread == CtlInit /\ OdoFresh(0) /\ ThrInit /\ ProfIdle /\ YawInit /\ PaceInit /\ HistInit /\ TwinInit
NextThread == ThrNext /\ UNCHANGED <<ctlVars, profVars, yawVars, paceVars, histVars, twinVars>>
SpecThread == InitThread /\ [][NextThread]_vars

\* The odometry thread alone, with encoder reads that can fail and a call of
\* stop.
ThrRunNext ==
    \/ ThrLoopWithin(MaxRunIters) \/ ThrExit \/ ThrStop
    \/ ThrReadLeft \/ ThrReadLeftFails \/ ThrReadRight \/ ThrReadRightFails
    \/ ThrUpdateBegin \/ ThrWriteX \/ ThrWriteZ \/ ThrWriteYaw \/ ThrSleep
NextThreadRun == ThrRunNext /\ UNCHANGED <<ctlVars, profVars, yawVars, paceVars, histVars, twinVars>>
SpecThreadRun == InitThread /\ [][NextThreadRun]_vars

\* The yaw field in floating point under update and reset calls.
NextYawFloat ==
    YawNext /\ UNCHANGED <<ctlVars, odoVars, thrVars, profVars, paceVars, histVars, twinVars>>
SpecYawFloat == Init /\ [][NextYawFloat]_vars

\* The pacing of the control loop.
NextPace ==
    /\ PaceNext
    /\ UNCHANGED <<ctlVars, odoVars, thrVars, profVars, yawVars, histVars, twinVars>>
SpecPace == Init /\ [][NextPace]_vars

\* One call of the stopping profile generator.
InitProfile == CtlInit /\ OdoFresh(0) /\ ThrIdle /\ ProfInit /\ YawInit /\ PaceInit /\ HistInit /\ TwinInit
NextProfile == Generate /\ UNCHANGED <<ctlVars, odoVars, thrVars, yawVars, paceVars, histVars, twinVars>>
SpecProfile == InitProfile /\ [][NextProfile]_vars

\* ------------------------------------------------------------ claims: arbiter
Ticked == ticks > 0
Cmd == Val(target_velocity_msg)
Prev == Val(previous_target_velocity_msg)

\* C1: whenever a plan is held after the staleness check and a pose message
\* was read, the tick is a Following tick, the command at the gate is the
\* answer of vel_request for that plan, that command is the last adopted one,
\* and a target velocity message read in the same tick is neither.
Precedence ==
    (Ticked /\ path_plan_msg # None /\ robot_pose_msg # None) =>
        /\ obs.state = "Following"
        /\ obs.called # None
        /\ Val(obs.called).path = Val(path_plan_msg).path_pose_list
        /\ Cmd.linear_velocity_mps = Val(obs.called).out[1]
        /\ Cmd.angular_velocity_radps = Val(obs.called).out[2]
        /\ Cmd.timestamp = now
        /\ previous_target_velocity_msg = target_velocity_msg
        /\ obs.in_target # None =>
              /\ target_velocity_msg # obs.in_target
              /\ previous_target_velocity_msg # obs.in_target

PrecedenceWitness ==
    /\ Ticked /\ path_plan_msg # None /\ robot_pose_msg # None
    /\ obs.in_target # None
    /\ obs.state = "Following"

\* C2: after every tick the held plan is at most 5.0 s old, a tick that drops
\* the plan holds none and is an ExternalCommand, Stopping or Idle tick, and
\* vel_request is only ever called with a plan at most 5.0 s old.
StalenessFallback ==
    /\ path_plan_msg # None => now - Val(path_plan_msg).timestamp <= PlanMaxAge
    /\ obs.called # None => now - Val(obs.called).timestamp <= PlanMaxAge
    /\ obs.plan_dropped =>
          /\ path_plan_msg = None
          /\ obs.state \in {"ExternalCommand", "Stopping", "Idle"}

StalenessFallbackWitness ==
    /\ obs.plan_dropped
    /\ obs.in_plan = None
    /\ obs.state = "Stopping"

\* C3: once the command (linear 1.0, angular 0.0) is the last adopted one and
\* the following ticks, at most 0.5 s apart, are Stopping or Idle ticks, the
\* linear velocity at the gate does not rise from one tick to the next and
\* does not go from half the command or more straight to zero.
ClearlyNonZero == One \div 2

GracefulStop ==
    [][ ( /\ previous_target_velocity_msg # None
          /\ Prev.linear_velocity_mps = One
          /\ Prev.angular_velocity_radps = 0
          /\ obs.state \in {"ExternalCommand", "Stopping"}
          /\ obs'.state \in {"Stopping", "Idle"}
          /\ now' - now <= Second \div 2 )
        => /\ Val(target_velocity_msg').linear_velocity_mps
                  <= Cmd.linear_velocity_mps
           /\ ~ ( /\ Cmd.linear_velocity_mps >= ClearlyNonZero
                  /\ Val(target_velocity_msg').linear_velocity_mps = 0 )
      ]_vars

\* C4: whenever vel_request is called with a pose list other than the one of
\* its previous call, goal_idx is 0 at the call.
PlanReplacementResetsProgress ==
    ( /\ obs.called # None
      /\ obs.prev_called # None
      /\ Val(obs.called).path # Val(obs.prev_called) )
    => Val(obs.called).goal_idx = 0

\* C9: a tick that ends with the flag false calls the actuator and the
\* telemetry not at all and leaves the setpoint as it was; a tick that ends
\* with the flag true sends its command once and publishes once.
LocalizationGating ==
    [][ ticks' # ticks =>
          IF localization_initialized'
          THEN /\ obs'.set_calls = 1
               /\ obs'.publishes = 1
               /\ setpoint' = Some(<<Val(target_velocity_msg').linear_velocity_mps,
                                     Val(target_velocity_msg').angular_velocity_radps>>)
          ELSE /\ obs'.set_calls = 0
               /\ obs'.publishes = 0
               /\ setpoint' = setpoint
      ]_vars

LocalizationGatingWitness ==
    /\ Ticked
    /\ ~localization_initialized
    /\ setpoint # None
    /\ Val(setpoint)[1] # Cmd.linear_velocity_mps

\* C10: every tick reaches the gate with one command, both velocities set,
\* made by the one branch the tick took, and raises nothing, whichever
\* messages were there to read.
OneCommandPerTick ==
    Ticked =>
        /\ ~obs.raised
        /\ target_velocity_msg # None
        /\ Cmd.linear_velocity_mps \in Int
        /\ Cmd.angular_velocity_radps \in Int
        /\ obs.state \in {"Following", "ExternalCommand", "Stopping", "Idle"}
        /\ obs.state = "Following" => obs.called # None /\ Cmd.timestamp = now
        /\ obs.state = "ExternalCommand" => target_velocity_msg = obs.in_target
        /\ obs.state = "Stopping" =>
              /\ obs.in_target = None
              /\ stopping_velocity_profile_linear # None
              /\ stopping_velocity_profile_angular # None
        /\ obs.state = "Idle" =>
              /\ obs.in_target = None
              /\ Cmd.linear_velocity_mps = 0
              /\ Cmd.angular_velocity_radps = 0

OneCommandPerTickWitness ==
    /\ Ticked
    /\ obs.in_plan = None /\ obs.in_target = None
    /\ obs.in_localization = None /\ robot_pose_msg = None
    /\ obs.state = "Idle"


\* C15: a tick that read a path plan message at most 5.0 s old and a pose
\* message is a Following tick, also when the message carries the pose list
\* of the held plan.
FollowingWheneverFresh ==
    ( /\ Ticked
      /\ obs.in_plan # None
      /\ now - Val(obs.in_plan).timestamp <= PlanMaxAge
      /\ robot_pose_msg # None )
    => obs.state = "Following"

\* C16: a tick that cannot follow (no plan held or no pose read) and read a
\* direct command has that message, timestamp included, as its command and as
\* the last adopted command, and ends holding no stopping profile.
ExternalCommandStep ==
    ( /\ Ticked
      /\ path_plan_msg = None \/ robot_pose_msg = None
      /\ obs.in_target # None )
    => /\ obs.state = "ExternalCommand"
       /\ target_velocity_msg = obs.in_target
       /\ previous_target_velocity_msg = obs.in_target
       /\ stopping_velocity_profile_linear = None
       /\ stopping_velocity_profile_angular = None

\* A direct command stamped before the tick, read while a stopping profile
\* was held and while a plan is held but no pose was read.
ExternalCommandStepWitness ==
    /\ Ticked
    /\ path_plan_msg # None /\ robot_pose_msg = None
    /\ obs.in_target # None
    /\ Val(obs.in_target).timestamp < now
    /\ obs.profile_before

\* C17: a Stopping tick that follows a Following, ExternalCommand or Idle tick
\* ends holding the profile generated at its own time from the last adopted
\* command; a Stopping tick that follows a Stopping tick keeps the profile it
\* found.
ProfileSeededAtStopBegin ==
    [][ (ticks' # ticks /\ obs'.state = "Stopping") =>
          IF obs.state = "Stopping"
          THEN /\ stopping_velocity_profile_linear # None
               /\ stopping_velocity_profile_linear'
                      = stopping_velocity_profile_linear
               /\ stopping_velocity_profile_angular'
                      = stopping_velocity_profile_angular
          ELSE LET fresh == generate_stopping_velocity_profile(
                                Prev, DecelTime, now')
               IN  /\ stopping_velocity_profile_linear' = Some(fresh[1])
                   /\ stopping_velocity_profile_angular' = Some(fresh[2])
      ]_vars

ZeroCommand(msg) ==
    /\ msg # None
    /\ Val(msg).linear_velocity_mps = 0
    /\ Val(msg).angular_velocity_radps = 0

\* C18: a tick that cannot follow and read no direct command is a Stopping
\* tick exactly when a last adopted command is held whose timestamp is less
\* than 2.0 s before the tick, and then leaves that command, timestamp
\* included, as it was; otherwise it is an Idle tick, its command is (0, 0)
\* and it ends with no last adopted command.
StoppingWindowAndIdle ==
    [][ ( /\ ticks' # ticks
          /\ path_plan_msg' = None \/ robot_pose_msg' = None
          /\ obs'.in_target = None )
        => IF /\ previous_target_velocity_msg # None
              /\ now' - Prev.timestamp < CommandMaxAge
           THEN /\ obs'.state = "Stopping"
                /\ previous_target_velocity_msg' = previous_target_velocity_msg
           ELSE /\ obs'.state = "Idle"
                /\ ZeroCommand(target_velocity_msg')
                /\ previous_target_velocity_msg' = None
      ]_vars

\* A Stopping tick that found a profile held, 1.5 s after the timestamp of
\* the last adopted command.
StoppingWindowAndIdleWitness ==
    /\ obs.state = "Stopping"
    /\ obs.profile_before
    /\ now - Prev.timestamp = 3 * (Second \div 2)

\* C19: a tick that reads no plan message and no direct command, and finds
\* the held plan stale or absent and the last adopted command absent or
\* stamped 2.0 s or more ago, is an Idle tick with command (0, 0) and ends
\* with no plan and no last adopted command, so that the same holds of every
\* tick after it until a plan or a command arrives.
EventualRest ==
    [][ ( /\ ticks' # ticks
          /\ obs'.in_plan = None
          /\ obs'.in_target = None
          /\ path_plan_msg # None
                => now' - Val(path_plan_msg).timestamp > PlanMaxAge
          /\ previous_target_velocity_msg # None
                => now' - Prev.timestamp >= CommandMaxAge )
        => /\ obs'.state = "Idle"
           /\ ZeroCommand(target_velocity_msg')
           /\ path_plan_msg' = None
           /\ previous_target_velocity_msg' = None
      ]_vars

\* A resting tick after the tick that dropped the plan, with a pose at hand.
EventualRestWitness ==
    /\ obs.state = "Idle"
    /\ obs.in_plan = None /\ obs.in_target = None
    /\ robot_pose_msg # None
    /\ obs.last_called # None
    /\ ~obs.plan_dropped
    /\ ticks >= 3

\* C24: after a tick that ended in Idle no stopping profile is held, for the
\* linear axis or for the angular axis.
IdleClearsProfile ==
    (Ticked /\ obs.state = "Idle") =>
        /\ stopping_velocity_profile_linear = None
        /\ stopping_velocity_profile_angular = None

\* Every a in the sequence of calls tr comes before every b in it.
Before(tr, a, b) ==
    \A i, j \in 1..Len(tr) : (tr[i] = a /\ tr[j] = b) => i < j

FirstSampleNoOp ==
    [][(prev_left_turns = None /\ odo'.updates # odo.updates) =>
          /\ x' = x /\ z' = z /\ yaw' = yaw
          /\ ret' = Some(<<x, z, yaw>>)
          /\ odo'.cal # None
          /\ prev_left_turns' = Some(Val(odo'.cal).left)
          /\ prev_right_turns' = Some(Val(odo'.cal).right)]_vars

\* The first update of an object constructed with a non-zero yaw, given two
\* different non-zero readings.
FirstSampleNoOpWitness ==
    /\ odo.updates = 1
    /\ yaw = 3
    /\ ret = Some(<<0, 0, 3>>)
    /\ prev_left_turns = Some(2)
    /\ prev_right_turns = Some(-1)

RECURSIVE SumDtheta(_)
SumDtheta(steps) ==
    IF steps = <<>> THEN 0
    ELSE HeadingChange(steps[1][1], steps[1][2]) + SumDtheta(Tail(steps))

\* C7: once calibrated, yaw is the yaw at calibration plus the sum of the
\* heading changes of the updates since, modulo a whole turn, and that is the
\* heading change between the calibration sample and the last sample alone.
YawAccumulation ==
    odo.cal # None =>
        LET cal == Val(odo.cal)
        IN  /\ yaw = (cal.yaw + SumDtheta(odo.steps)) % TwoPi
            /\ yaw = (cal.yaw +
                      HeadingChange(WheelTravel(Val(prev_left_turns), cal.left),
                                    WheelTravel(Val(prev_right_turns), cal.right)))
                     % TwoPi

\* Two equal steps of half a turn each, from a non-zero yaw, end at that yaw.
YawAccumulationWitness ==
    /\ odo.cal # None
    /\ Len(odo.steps) = 2
    /\ odo.steps[1] = odo.steps[2]
    /\ SumDtheta(odo.steps) = TwoPi
    /\ Val(odo.cal).yaw = 3
    /\ yaw = 3

\* The pose an integrating update reaches from the pose (0, 0, 0) when the
\* cached sample is first and the new sample is second.
PoseFromOrigin(first, second) ==
    LET dl == WheelTravel(second[1], first[1])
        dr == WheelTravel(second[2], first[2])
        dc == ForwardDistance(dl, dr)
        dtheta == HeadingChange(dl, dr)
    IN  <<NextX(0, 0, dc, dtheta), NextZ(0, 0, dc, dtheta), NextYaw(0, dtheta)>>

\* C13: after a reset the pose is (0, 0, 0) and no reading is cached; the
\* first update after it returns (0, 0, 0) and caches its sample; the second
\* one moves the pose by the delta between those two samples only.
ResetForcesRecalibration ==
    odo.resets > 0 =>
        /\ Len(odo.since) = 0 =>
              /\ <<x, z, yaw>> = <<0, 0, 0>>
              /\ prev_left_turns = None /\ prev_right_turns = None
        /\ Len(odo.since) = 1 =>
              /\ <<x, z, yaw>> = <<0, 0, 0>>
              /\ ret = Some(<<0, 0, 0>>)
              /\ prev_left_turns = Some(odo.since[1][1])
              /\ prev_right_turns = Some(odo.since[1][2])
        /\ Len(odo.since) = 2 =>
              /\ <<x, z, yaw>> = PoseFromOrigin(odo.since[1], odo.since[2])
              /\ ret = Some(<<x, z, yaw>>)

\* Two updates after a reset, where integrating from the readings cached
\* before the reset would have given another pose.
ResetForcesRecalibrationWitness ==
    /\ odo.resets = 1
    /\ Len(odo.since) = 2
    /\ odo.stale # None
    /\ Val(odo.stale) # odo.since[1]
    /\ PoseFromOrigin(Val(odo.stale), odo.since[2]) # <<x, z, yaw>>
    /\ <<x, z, yaw>> # <<0, 0, 0>>

YawRange ==
    0 <= fyaw /\ fyaw < Fine * TwoPi

\* ------------------------------------------------------------ claims: profile
ProfileKeys(d) == {d[i][1] : i \in 1..Len(d)}

Sign(n) == IF n > 0 THEN 1 ELSE IF n < 0 THEN -1 ELSE 0

\* The table d is keyed by c, c + resolution, ... up to c + T with c + T one of
\* the keys, starts at v0, ends at 0 at c + T, never grows in magnitude and
\* never has the sign opposite to v0.
DecaysToZero(d, v0, T, c) ==
    /\ c + T \in ProfileKeys(d)
    /\ \A i \in 1..Len(d) :
          /\ d[i][1] = c + (i - 1) * resolution
          /\ d[i][1] <= c + T
          /\ d[i][1] = c => d[i][2] = v0
          /\ d[i][1] = c + T => d[i][2] = 0
          /\ Sign(d[i][2]) \in {0, Sign(v0)}
          /\ i > 1 => Abs(d[i][2]) <= Abs(d[i - 1][2])

\* C6: for every velocity and every stop duration T > 0 the generator returns,
\* for each axis, a table over call time + 0, 0.01, ..., T whose value falls
\* from v0 to 0 at T without growing and without changing sign, and both
\* tables have the same keys.
StoppingProfileDecay ==
    (prof_out # None /\ Val(prof_in).decel_time_s > 0) =>
        LET in == Val(prof_in)
            lin == Val(prof_out)[1]
            ang == Val(prof_out)[2]
        IN  /\ DecaysToZero(lin, in.msg.linear_velocity_mps, in.decel_time_s,
                            in.curr_time)
            /\ DecaysToZero(ang, in.msg.angular_velocity_radps, in.decel_time_s,
                            in.curr_time)
            /\ ProfileKeys(lin) = ProfileKeys(ang)

\* ------------------------------------------------------------ claims: pose
\* C8: a pose returned to a reading thread is the pose some completed update
\* left (or the pose at construction), whatever the interleaving with the
\* odometry thread.
NoPoseTearing ==
    rd.pc = "done" => <<rd.x, rd.z, rd.yaw>> \in committed


\* ------------------------------------------------------------ claims: failures
\* C11: a tick in which the actuator call raises leaves the control loop
\* running, so that the next tick can follow.
ActuatorFailureSurvived ==
    obs.failed # "none" => loop.alive


\* C29: once the loop has been left, controller.stop was called, first of the
\* teardown calls and so before the bus subscriber and the bus publisher are
\* stopped; after a user interrupt all three teardown calls were made.
ShutdownStopsMotors ==
    (~loop.alive /\ loop.cause # "none") =>
        /\ Len(loop.teardown) >= 1
        /\ loop.teardown[1] = "controller.stop"
        /\ Before(loop.teardown, "controller.stop", "mqtt_subscriber.stop")
        /\ Before(loop.teardown, "controller.stop", "mqtt_publisher.stop")
        /\ loop.cause = "interrupt" =>
              loop.teardown = <<"controller.stop", "mqtt_subscriber.stop",
                                "mqtt_publisher.stop">>

\* A user interrupt after a tick that wrote a non-zero command to the motors.
ShutdownStopsMotorsWitness ==
    /\ ~loop.alive
    /\ loop.cause = "interrupt"
    /\ setpoint # None
    /\ Val(setpoint) # <<0, 0>>
    /\ obs.set_calls = 1

\* C12: a call of the generator with a stop duration of zero or less returns
\* no tables: it ends with an error.
NonPositiveDurationRejected ==
    (prof_in # None /\ Val(prof_in).decel_time_s <= 0) => prof_out = None

\* ------------------------------------------------------------ claims: thread
\* The sample pair that update was last given: the last pair read whole.
CachedPair == Some(<<Val(prev_left_turns), Val(prev_right_turns)>>)

\* C21: a step in which an encoder read fails calls no update, leaves the
\* pose and both cached readings as they were and takes the thread to its
\* sleep, from where it goes back to the loop; a call of update is the only
\* one of its iteration and integrates the delta between the last two pairs of
\* samples that were read whole, the first such pair being calibration only.
DroppedEncoderSample ==
    [][ /\ (thr'.failed /\ ~thr.failed) =>
              /\ <<x, z, yaw>>' = <<x, z, yaw>>
              /\ <<prev_left_turns, prev_right_turns>>'
                     = <<prev_left_turns, prev_right_turns>>
              /\ thr'.pc = "sleep"
              /\ \A i \in 1..Len(thr'.steps) : thr'.steps[i] # "update"
        /\ (thr.failed /\ thr.pc = "sleep" /\ thr'.pc # thr.pc) =>
              /\ thr'.pc = "loop"
              /\ thr'.running = thr.running
              /\ <<x, z, yaw>>' = <<x, z, yaw>>
        /\ (thr.pc = "update" /\ thr'.pc # thr.pc) =>
              /\ ~thr.failed
              /\ Cardinality({i \in 1..Len(thr'.steps) :
                                 thr'.steps[i] = "update"}) = 1
              /\ IF thr.pair_prev = None
                 THEN /\ prev_left_turns = None
                      /\ thr'.pc = "sleep"
                      /\ <<x, z, yaw>>' = <<x, z, yaw>>
                 ELSE /\ CachedPair = thr.pair_prev
                      /\ thr'.pc = "write_x"
                      /\ LET old == Val(thr.pair_prev)
                             new == Val(thr.pair)
                             dl == WheelTravel(new[1], old[1])
                             dr == WheelTravel(new[2], old[2])
                         IN  /\ thr'.dc = ForwardDistance(dl, dr)
                             /\ thr'.dtheta = HeadingChange(dl, dr)
              /\ CachedPair' = thr.pair
      ]_vars

\* C30: once stop has been called, the next evaluation of the loop condition
\* ends run and nothing moves after that; between the call and that
\* evaluation the thread completes at most the iteration it was in, with at
\* most one call of update, also when a read of that iteration fails.
ThreadTermination ==
    [][ /\ (~thr.running /\ thr.pc = "loop" /\ thr' # thr) =>
              thr'.pc = "exited"
        /\ thr.pc = "exited" =>
              /\ thr' = thr
              /\ <<x, z, yaw, prev_left_turns, prev_right_turns>>'
                     = <<x, z, yaw, prev_left_turns, prev_right_turns>>
        /\ ~thr'.running =>
              /\ thr'.after_stop <= 1
              /\ thr'.iters <= Val(thr'.stop_at).iters + 1
              /\ thr'.iters = Val(thr'.stop_at).iters + 1 =>
                    thr'.pc \in {"loop", "exited"}
              /\ (Val(thr'.stop_at).pc = "loop" /\ thr'.pc # "exited") =>
                    thr'.pc = "loop"
      ]_vars

\* run has returned after stop was called before the reads of an iteration
\* whose right encoder read then failed; two iterations had been completed.
ThreadTerminationWitness ==
    /\ thr.pc = "exited"
    /\ thr.failed
    /\ thr.dropped # None
    /\ Val(thr.stop_at) = [pc |-> "read_left", iters |-> 2]
    /\ thr.iters = 3

\* An integrating update in the iteration after one whose right encoder read
\* failed when the left one had read a new value.
DroppedEncoderSampleWitness ==
    /\ thr.pc = "write_x"
    /\ thr.iters = 2
    /\ thr.pair_prev # None
    /\ thr.dropped # None
    /\ Val(thr.dropped) # Val(thr.pair_prev)[1]
    /\ Val(thr.dropped) # Val(thr.pair)[1]
    /\ thr.dtheta # 0

\* ------------------------------------------------------------ claims: timing
\* C22: every iteration starts where the one before it left the clock; one
\* whose body took the period or more calls no sleep and leaves the clock at
\* its end time; one whose body took less calls time.sleep with the period
\* less the time taken, whatever the iterations before it took.
LoopOverrun ==
    [][ pace'.iters # pace.iters =>
          LET d == pace'.end_time - pace'.start_time
          IN  /\ pace'.iters = pace.iters + 1
              /\ pace'.start_time = pace.clock
              /\ IF d >= Period
                 THEN /\ pace'.sleep = None
                      /\ pace'.clock = pace'.end_time
                 ELSE /\ pace'.sleep = Some(Period - d)
                      /\ pace'.clock >= pace'.end_time + (Period - d)
      ]_vars

\* A short iteration right after one that took two periods and a half.
LoopOverrunWitness ==
    /\ pace.iters >= 2
    /\ pace.took_prev = 5 * (Period \div 2)
    /\ pace.took = Period \div 2
    /\ pace.sleep = Some(Period \div 2)

\* ------------------------------------------------------------ claims: stopping
\* v is no larger in magnitude than v0 and does not have the opposite sign.
Within(v, v0) == Abs(v) <= Abs(v0) /\ Sign(v) \in {0, Sign(v0)}

\* C25: the command of a Stopping tick is, on each axis, no larger in
\* magnitude than the last adopted command and of its sign or zero.
StoppingWithinLastCommand ==
    (Ticked /\ obs.state = "Stopping") =>
        /\ Within(Cmd.linear_velocity_mps, Prev.linear_velocity_mps)
        /\ Within(Cmd.angular_velocity_radps, Prev.angular_velocity_radps)

\* C26: a direct command read by a tick that cannot follow is that tick's
\* command and the last adopted command whatever its timestamp; when its
\* timestamp was 2.0 s or more before that tick, the next tick, if it cannot
\* follow and reads no direct command, is an Idle tick with command (0, 0).
NoAgeCheckOnCommands ==
    [][ ticks' # ticks =>
          /\ obs'.state = "ExternalCommand" =>
                /\ target_velocity_msg' = obs'.in_target
                /\ previous_target_velocity_msg' = obs'.in_target
          /\ ( /\ obs.state = "ExternalCommand"
               /\ now - Val(obs.in_target).timestamp >= CommandMaxAge
               /\ path_plan_msg' = None \/ robot_pose_msg' = None
               /\ obs'.in_target = None )
             => /\ obs'.state = "Idle"
                /\ ZeroCommand(target_velocity_msg')
      ]_vars

\* An Idle tick half a second after a tick that took a direct command
\* stamped exactly 2.0 s before it.
NoAgeCheckOnCommandsWitness ==
    /\ obs.state = "Idle"
    /\ hist.state = "ExternalCommand"
    /\ hist.now - Val(hist.in_target).timestamp = CommandMaxAge
    /\ now - hist.now = Second \div 2

\* ------------------------------------------------------------ claims: gating
\* C27: a run that reads any localization messages and a run that reads
\* none, reading the same plan, pose and direct command messages at the same
\* times, hold the same plan, progress, last adopted command and stopping
\* profiles after every tick, took the same branch and computed the same
\* command; hence so do any two runs that differ in those messages only.
ArbitrationIgnoresFlag ==
    /\ twin.path_plan_msg = path_plan_msg
    /\ twin.goal_idx = goal_idx
    /\ twin.previous = previous_target_velocity_msg
    /\ twin.linear = stopping_velocity_profile_linear
    /\ twin.angular = stopping_velocity_profile_angular
    /\ twin.target_velocity_msg = target_velocity_msg
    /\ twin.state = obs.state

\* After a non-zero Stopping command one run has its flag set and has written
\* the command to the actuator, the other has not.
ArbitrationIgnoresFlagWitness ==
    /\ obs.state = "Stopping"
    /\ ~ZeroCommand(target_velocity_msg)
    /\ localization_initialized /\ ~twin.localization_initialized
    /\ setpoint = SetpointOf(target_velocity_msg)
    /\ twin.setpoint # setpoint

\* C28: the flag is false before the first tick; a tick that read a
\* localization message ends with the flag at that message's value, and a
\* tick that read none ends with the flag it found.
StickyLocalizationFlag ==
    [][ /\ ticks = 0 => ~localization_initialized
        /\ ticks' # ticks =>
              localization_initialized' =
                  IF obs'.in_localization # None
                  THEN Val(obs'.in_localization).initialized
                  ELSE localization_initialized
      ]_vars

\* A tick that read no localization message and ends with the flag set by
\* an earlier tick, so that it writes to the actuator.
StickyLocalizationFlagWitness ==
    /\ ticks >= 2
    /\ localization_initialized
    /\ obs.in_localization = None
    /\ obs.set_calls = 1

====
